---------------------------- MODULE Spec2Model ----------------------------
(* Abjad calculator: text normalisation, value computation and matching  *)
(* of a value against a catalog of named entities (src/calculator.js),   *)
(* the data loading of src/data-loader.js and the page controller.       *)
(*                                                                       *)
(* Strings are sequences of UTF-16 code units (integers).  Entities are  *)
(* records [id, abjad_value]; their display strings (arabic_name,        *)
(* english_name, meaning) are copied through by the code and never read, *)
(* so they are not carried.                                              *)
EXTENDS Integers, Sequences, FiniteSets, TLC

VARIABLES
    _dataLoader,   \* the DataLoader singleton (calculator.js:246)
    _calculator,   \* the AbjadCalculator singleton (calculator.js:386)
    _matcher,      \* the NameMatcher singleton (calculator.js:577)
    call,          \* the last public operation and its argument
    stages,        \* the pipeline stages the last operation invoked, in order
    normStatus,    \* status of the last processNameInput
    calcReturn,    \* what the last calculateAbjad returned
    matchReturn,   \* what the last matchDivineNames returned
    ui,            \* the page: input box, error box, result panel, appState
    app            \* data-loader.js: DIVINE_NAMES, NAMES_INDEX, start-up progress

vars == << _dataLoader, _calculator, _matcher, call, stages, normStatus,
           calcReturn, matchReturn, ui, app >>

-----------------------------------------------------------------------------
(* Bounds *)

\* longest input string of the text specification
MaxLen == 5
\* first catalog id: the ids are 8, 9, 10, ..., of one and of two digits
IdBase == 8
\* largest entity value and longest catalog of the single-load specification
MaxValue == 2
MaxCat == 3
\* longest catalog of the reload and page specifications
ReloadLen == 2
\* longest catalog of the limit specification: 6 entities make 15 pairs
ManyCat == 6

-----------------------------------------------------------------------------
(* Characters *)

SPACE == 32
ALEF == 1575
BEH == 1576
FATHA == 1614
HEH_GOAL == 1729

\* Sample characters of the inputs that the code does not name: a whitespace
\* that is not a space, a character outside the script, and a character of the
\* Arabic block that has no weight (U+060C)
Other == [tab |-> 9, latin |-> 120, comma |-> 1548]

\* ECMAScript WhiteSpace and LineTerminator: what trim() and \s match
IsWhitespace(c) ==
    \/ c \in {9, 10, 11, 12, 13, 32, 160, 5760, 8232, 8233, 8239, 8287, 12288, 65279}
    \/ (8192 <= c /\ c <= 8202)

ARABIC_DIACRITICS == (1611..1624) \cup {1648}

ARABIC_CHAR_VARIANTS ==
    (1609 :> 1575) @@ (1649 :> 1575) @@ (1664 :> 1576) @@ (1726 :> 1607) @@
    (1729 :> 1607) @@ (1730 :> 1607) @@ (1656 :> 1610) @@ (1746 :> 1610) @@
    (1747 :> 1610)

VALID_ARABIC_LETTERS ==
    { 1575, 1576, 1578, 1579, 1580, 1581, 1582,
      1583, 1584, 1585, 1586, 1587, 1588, 1589,
      1590, 1591, 1592, 1593, 1594, 1601, 1602,
      1603, 1604, 1605, 1606, 1607, 1608, 1610,
      1657, 1662, 1711, 1722, 1729, 1731, 1672,
      1681, 1683, 1688, 1746, 1748 }

ABJAD_VALUES ==
    (1575 :> 1) @@ (1576 :> 2) @@ (1662 :> 2) @@ (1580 :> 3) @@ (1670 :> 3) @@
    (1672 :> 4) @@ (1583 :> 4) @@ (1729 :> 5) @@ (1607 :> 5) @@ (1608 :> 6) @@
    (1586 :> 7) @@ (1688 :> 7) @@ (1581 :> 8) @@ (1591 :> 9) @@ (1740 :> 10) @@
    (1610 :> 10) @@ (1705 :> 20) @@ (1603 :> 20) @@ (1711 :> 20) @@
    (1604 :> 30) @@ (1605 :> 40) @@ (1606 :> 50) @@ (1587 :> 60) @@
    (1593 :> 70) @@ (1601 :> 80) @@ (1589 :> 90) @@ (1602 :> 100) @@
    (1585 :> 200) @@ (1681 :> 200) @@ (1588 :> 300) @@ (1657 :> 400) @@
    (1578 :> 400) @@ (1579 :> 500) @@ (1582 :> 600) @@ (1584 :> 700) @@
    (1590 :> 800) @@ (1592 :> 900) @@ (1594 :> 1000)

-----------------------------------------------------------------------------
(* TextProcessor *)

removeDiacritics(text) ==
    SelectSeq(text, LAMBDA c : c \notin ARABIC_DIACRITICS)

normalizeVariants(text) ==
    [i \in 1..Len(text) |->
        IF text[i] \in DOMAIN ARABIC_CHAR_VARIANTS
        THEN ARABIC_CHAR_VARIANTS[text[i]] ELSE text[i]]

RECURSIVE TrimStart(_)
TrimStart(text) ==
    IF text # <<>> /\ IsWhitespace(Head(text)) THEN TrimStart(Tail(text)) ELSE text

RECURSIVE TrimEnd(_)
TrimEnd(text) ==
    IF text # <<>> /\ IsWhitespace(text[Len(text)])
    THEN TrimEnd(SubSeq(text, 1, Len(text) - 1)) ELSE text

trim(text) == TrimEnd(TrimStart(text))

\* replace(/\s+/g, ' '): every maximal run of whitespace becomes one space
RECURSIVE CollapseWhitespace(_)
CollapseWhitespace(text) ==
    IF text = <<>> THEN <<>>
    ELSE IF IsWhitespace(Head(text))
         THEN <<SPACE>> \o CollapseWhitespace(TrimStart(text))
         ELSE <<Head(text)>> \o CollapseWhitespace(Tail(text))

removeSpaces(text) == CollapseWhitespace(trim(text))

isArabicUrduChar(char) ==
    \/ char \in VALID_ARABIC_LETTERS
    \/ (1536 <= char /\ char <= 1791)
    \/ (1872 <= char /\ char <= 1919)

Min(a, b) == IF a <= b THEN a ELSE b

ErrorMsg(msg) == [msg |-> msg, chars |-> <<>>, more |-> 0]

\* `Non-Arabic characters found: ${charList}${extra}`
NonArabicError(nonArabicChars) ==
    [msg |-> "Non-Arabic characters found",
     chars |-> SubSeq(nonArabicChars, 1, Min(3, Len(nonArabicChars))),
     more |-> IF Len(nonArabicChars) > 3 THEN Len(nonArabicChars) - 3 ELSE 0]

NoStatus ==
    [success |-> FALSE, original |-> <<>>, cleaned |-> <<>>, length |-> 0,
     warnings |-> <<>>, errors |-> <<>>, hasDiacritics |-> FALSE, charCount |-> 0]

\* processNameInput is written as its steps, each handing its values on

\* Step 5 left out: the kept characters are the result as they are
FinalCleanup_none(kept) == kept

\* Step 5, final cleanup
FinalCleanup(kept) == removeSpaces(kept)

\* the end of processNameInput: the error of Step 4, the check of Step 5, the result
NameInputResult(inputString, hasDia, variantsChanged, nonArabicChars, cleaned) ==
    [cleaned |-> cleaned,
     status |->
        [success |-> cleaned # <<>>,
         original |-> inputString,
         cleaned |-> cleaned,
         length |-> Len(cleaned),
         warnings |->
            (IF hasDia THEN <<"Diacritical marks removed">> ELSE <<>>)
            \o (IF variantsChanged THEN <<"Character variants normalized">> ELSE <<>>),
         errors |->
            (IF Len(nonArabicChars) > 0 THEN <<NonArabicError(nonArabicChars)>> ELSE <<>>)
            \o (IF cleaned = <<>>
                THEN <<ErrorMsg("No valid Arabic/Urdu characters found")>> ELSE <<>>),
         hasDiacritics |-> hasDia,
         charCount |-> Len(cleaned)]]

\* Step 4: the loop keeps spaces (unless removeSpacesBetween) and script
\* characters in `cleaned` and collects the others in nonArabicChars
ValidateCharacters(inputString, removeSpacesBetween, hasDia, variantsChanged, text) ==
    NameInputResult(inputString, hasDia, variantsChanged,
        SelectSeq(text, LAMBDA c : c # SPACE /\ ~isArabicUrduChar(c)),
        FinalCleanup(SelectSeq(text, LAMBDA c :
            IF c = SPACE THEN ~removeSpacesBetween ELSE isArabicUrduChar(c))))

\* Step 3 left out: the variant letters stay as they were typed
NormalizeStep_asTyped(inputString, removeSpacesBetween, hasDia, textBefore) ==
    ValidateCharacters(inputString, removeSpacesBetween, hasDia, FALSE, textBefore)

\* Step 3: normalize character variants
NormalizeStep(inputString, removeSpacesBetween, hasDia, textBefore) ==
    ValidateCharacters(inputString, removeSpacesBetween, hasDia,
        textBefore # normalizeVariants(textBefore), normalizeVariants(textBefore))

\* Step 2 left out: diacritical marks stay in the text and are not reported
DiacriticsStep_keep(inputString, removeSpacesBetween, text) ==
    NormalizeStep(inputString, removeSpacesBetween, FALSE, text)

\* Step 2: remove diacritical marks, if there is one
DiacriticsStep(inputString, removeSpacesBetween, text) ==
    IF \E i \in 1..Len(text) : text[i] \in ARABIC_DIACRITICS
    THEN NormalizeStep(inputString, removeSpacesBetween, TRUE, removeDiacritics(text))
    ELSE NormalizeStep(inputString, removeSpacesBetween, FALSE, text)

\* no check after Step 1: an empty text goes through the steps like any other
EmptyCheck_none(inputString, removeSpacesBetween, text) ==
    DiacriticsStep(inputString, removeSpacesBetween, text)

\* the check after Step 1
EmptyCheck(inputString, removeSpacesBetween, text) ==
    IF text = <<>>
    THEN [cleaned |-> <<>>,
          status |-> [NoStatus EXCEPT !.original = inputString,
                                      !.errors = <<ErrorMsg("Empty input")>>]]
    ELSE DiacriticsStep(inputString, removeSpacesBetween, text)

\* returns [cleaned, status]
processNameInput(inputString, removeSpacesBetween) ==
    EmptyCheck(inputString, removeSpacesBetween, removeSpaces(inputString))

-----------------------------------------------------------------------------
(* DataLoader *)

\* new DataLoader(): abjadValues = {}, divineNames = [], namesIndex = {}
NewDataLoader ==
    [isNull |-> FALSE, abjadValues |-> <<>>, divineNames |-> <<>>,
     namesIndex |-> <<>>, loaded |-> FALSE]

NullDataLoader == [NewDataLoader EXCEPT !.isNull = TRUE]

\* every call constructs the loader anew
getDataLoader_fresh(dl) == NewDataLoader

getDataLoader(dl) == IF dl.isNull THEN NewDataLoader ELSE dl

loadAll(dl, abjadValues, divineNames, namesIndex) ==
    [isNull |-> FALSE, abjadValues |-> abjadValues, divineNames |-> divineNames,
     namesIndex |-> namesIndex,
     loaded |-> (DOMAIN abjadValues # {} /\ Len(divineNames) > 0)]

\* returns abjadValues[letter] || null, or throws when nothing is loaded
getLetterValue(loader, letter) ==
    IF DOMAIN loader.abjadValues = {}
    THEN [thrown |-> TRUE, error |-> "Abjad values not loaded. Call loadAll() first.",
          isNull |-> TRUE, value |-> 0]
    ELSE IF letter \in DOMAIN loader.abjadValues /\ loader.abjadValues[letter] # 0
         THEN [thrown |-> FALSE, error |-> "", isNull |-> FALSE,
               value |-> loader.abjadValues[letter]]
         ELSE [thrown |-> FALSE, error |-> "", isNull |-> TRUE, value |-> 0]

-----------------------------------------------------------------------------
(* AbjadCalculator *)

NoCalcResult ==
    [success |-> FALSE, totalValue |-> 0, inputName |-> <<>>,
     characterBreakdown |-> <<>>, charCount |-> 0, errors |-> <<>>, warnings |-> <<>>]

\* a character without a value is skipped and leaves no warning
CalcTurn_silentSkip(acc, char, position, lv) ==
    IF lv.thrown THEN [acc EXCEPT !.thrown = TRUE, !.error = lv.error]
    ELSE IF lv.isNull THEN acc
    ELSE [acc EXCEPT !.breakdown = Append(@, [character |-> char,
                                              value |-> lv.value,
                                              position |-> position]),
                     !.total = @ + lv.value,
                     !.charCount = @ + 1]

\* one turn of the for loop of calculateAbjadValue: acc after the character
\* char at index position (0-based), whose letter value is lv
CalcTurn(acc, char, position, lv) ==
    IF lv.thrown THEN [acc EXCEPT !.thrown = TRUE, !.error = lv.error]
    ELSE IF lv.isNull
    THEN [acc EXCEPT !.warnings = Append(@, [char |-> char, position |-> position])]
    ELSE [acc EXCEPT !.breakdown = Append(@, [character |-> char,
                                              value |-> lv.value,
                                              position |-> position]),
                     !.total = @ + lv.value,
                     !.charCount = @ + 1]

\* the for loop of calculateAbjadValue from index `position` (0-based) on;
\* acc = [thrown, error, breakdown, warnings, total, charCount]
RECURSIVE CalcLoop(_, _, _, _)
CalcLoop(loader, arabicName, position, acc) ==
    IF position >= Len(arabicName) \/ acc.thrown THEN acc
    ELSE CalcLoop(loader, arabicName, position + 1,
            CalcTurn(acc, arabicName[position + 1], position,
                     getLetterValue(loader, arabicName[position + 1])))

\* a text without any letter of the table is a success with total 0
CalcFinish_lenient(arabicName, acc) ==
    [thrown |-> acc.thrown, error |-> acc.error,
     result |->
        IF acc.thrown THEN [NoCalcResult EXCEPT !.inputName = arabicName]
        ELSE [success |-> TRUE,
              totalValue |-> acc.total,
              inputName |-> arabicName,
              characterBreakdown |-> acc.breakdown,
              charCount |-> acc.charCount,
              errors |-> <<>>,
              warnings |-> acc.warnings]]

\* the end of calculateAbjadValue, after the loop
CalcFinish(arabicName, acc) ==
    [thrown |-> acc.thrown, error |-> acc.error,
     result |->
        IF acc.thrown THEN [NoCalcResult EXCEPT !.inputName = arabicName]
        ELSE [success |-> acc.charCount # 0,
              totalValue |-> IF acc.charCount = 0 THEN 0 ELSE acc.total,
              inputName |-> arabicName,
              characterBreakdown |-> acc.breakdown,
              charCount |-> acc.charCount,
              errors |-> IF acc.charCount = 0
                         THEN <<ErrorMsg("No valid Arabic letters found in input")>>
                         ELSE <<>>,
              warnings |-> acc.warnings]]

\* charCount is the position after the last character, skipped ones counted
calculateAbjadValue_countAll(loader, arabicName) ==
    CalcFinish(arabicName,
        [CalcLoop(loader, arabicName, 0,
            [thrown |-> FALSE, error |-> "", breakdown |-> <<>>,
             warnings |-> <<>>, total |-> 0, charCount |-> 0])
         EXCEPT !.charCount = IF @ = 0 THEN 0 ELSE Len(arabicName)])

\* returns [thrown, error, result]
calculateAbjadValue(loader, arabicName) ==
    IF arabicName = <<>>
    THEN [thrown |-> FALSE, error |-> "",
          result |-> [NoCalcResult EXCEPT !.inputName = arabicName,
                                          !.errors = <<ErrorMsg("Input name is empty")>>]]
    ELSE CalcFinish(arabicName,
            CalcLoop(loader, arabicName, 0,
                [thrown |-> FALSE, error |-> "", breakdown |-> <<>>,
                 warnings |-> <<>>, total |-> 0, charCount |-> 0]))

\* new AbjadCalculator(): this.loader = getDataLoader()
getCalculator(calc) == [isNull |-> FALSE]

-----------------------------------------------------------------------------
(* Numbers and strings of the JavaScript runtime *)

\* a JavaScript number that is an integer, or NaN
Num(v) == [nan |-> FALSE, v |-> v]
NaN == [nan |-> TRUE, v |-> 0]

DigitChars == <<"0", "1", "2", "3", "4", "5", "6", "7", "8", "9">>

\* String(n) of an integer
RECURSIVE StringOf(_)
StringOf(n) ==
    IF n < 0 THEN <<"-">> \o StringOf(0 - n)
    ELSE IF n < 10 THEN <<DigitChars[n + 1]>>
    ELSE StringOf(n \div 10) \o <<DigitChars[(n % 10) + 1]>>

NumberToString(x) == IF x.nan THEN <<"N", "a", "N">> ELSE StringOf(x.v)

DigitValue(ch) == (CHOOSE d \in 1..10 : DigitChars[d] = ch) - 1

\* Number(s) of a string of decimal digits
RECURSIVE ToNumber(_)
ToNumber(s) ==
    IF Len(s) = 1 THEN DigitValue(s[1])
    ELSE 10 * ToNumber(SubSeq(s, 1, Len(s) - 1)) + DigitValue(s[Len(s)])

\* UTF-16 code unit of a character of a number's string
CharCode(ch) == IF ch = "-" THEN 45 ELSE 48 + DigitValue(ch)

\* a < b in the order of Array.prototype.sort without comparator
RECURSIVE StringLess(_, _)
StringLess(a, b) ==
    IF b = <<>> THEN FALSE
    ELSE IF a = <<>> THEN TRUE
    ELSE IF CharCode(Head(a)) # CharCode(Head(b))
         THEN CharCode(Head(a)) < CharCode(Head(b))
         ELSE StringLess(Tail(a), Tail(b))

\* [x, y].sort()
DefaultSortPair(x, y) ==
    IF StringLess(StringOf(y), StringOf(x)) THEN <<y, x>> ELSE <<x, y>>

\* JSON.stringify of an array of two integers
JSONStringifyPair(pair) ==
    <<"[">> \o StringOf(pair[1]) \o <<",">> \o StringOf(pair[2]) \o <<"]">>

-----------------------------------------------------------------------------
(* data-loader.js *)

\* the loop of buildNamesIndex from the (i+1)-th name on
RECURSIVE BuildNamesIndexFrom(_, _, _)
BuildNamesIndexFrom(names, i, index) ==
    IF i > Len(names) THEN index
    ELSE LET value == StringOf(names[i].abjad_value)
             index1 == IF value \in DOMAIN index THEN index
                       ELSE (value :> <<>>) @@ index
         IN  BuildNamesIndexFrom(names, i + 1,
                 [index1 EXCEPT ![value] = Append(@, names[i])])

\* a later name of a value comes first
buildNamesIndex_prepend(DIVINE_NAMES) ==
    LET values == {StringOf(DIVINE_NAMES[i].abjad_value) : i \in 1..Len(DIVINE_NAMES)}
        Rev(s) == [i \in 1..Len(s) |-> s[Len(s) + 1 - i]]
    IN  [v \in values |->
            Rev(SelectSeq(DIVINE_NAMES, LAMBDA n : StringOf(n.abjad_value) = v))]

buildNamesIndex(DIVINE_NAMES) == BuildNamesIndexFrom(DIVINE_NAMES, 1, <<>>)

getNamesByValue(loader, value) ==
    IF DOMAIN loader.namesIndex = {}
    THEN [thrown |-> TRUE, error |-> "Names index not loaded. Call loadAll() first.",
          names |-> <<>>]
    ELSE [thrown |-> FALSE, error |-> "",
          names |-> IF NumberToString(value) \in DOMAIN loader.namesIndex
                    THEN loader.namesIndex[NumberToString(value)] ELSE <<>>]

-----------------------------------------------------------------------------
(* NameMatcher *)

RECURSIVE BuildValueMapFrom(_, _, _)
BuildValueMapFrom(names, i, valueToIds) ==
    IF i > Len(names) THEN valueToIds
    ELSE LET value == StringOf(names[i].abjad_value)
             map1 == IF value \in DOMAIN valueToIds THEN valueToIds
                     ELSE (value :> <<>>) @@ valueToIds
         IN  BuildValueMapFrom(names, i + 1,
                 [map1 EXCEPT ![value] = Append(@, names[i].id)])

_buildValueMap(divineNames) == BuildValueMapFrom(divineNames, 1, <<>>)

NullMatcher == [isNull |-> TRUE, valueToIds |-> <<>>]

\* new NameMatcher(): the map is built from the names loaded at that moment
NewNameMatcher(loader) ==
    [isNull |-> FALSE, valueToIds |-> _buildValueMap(loader.divineNames)]

getMatcher(matcher, loader) ==
    IF matcher.isNull THEN NewNameMatcher(loader) ELSE matcher

\* the first name with the id, or null
_getNameById(loader, nameId) ==
    LET hits == {i \in 1..Len(loader.divineNames) : loader.divineNames[i].id = nameId}
    IN  IF hits = {} THEN [isNull |-> TRUE, name |-> [id |-> 0, abjad_value |-> 0]]
        ELSE [isNull |-> FALSE,
              name |-> loader.divineNames[CHOOSE i \in hits : \A j \in hits : i <= j]]

NoMatchResult ==
    [found |-> FALSE, type |-> "none", abjadValue |-> Num(0), count |-> 0,
     divineNames |-> <<>>, combinations |-> <<>>, responseTimeMs |-> 0]

\* the result of findDirectMatch once the index has been read
DirectResult(abjadValue, ms, looked) ==
    [thrown |-> looked.thrown, error |-> looked.error,
     result |->
        IF looked.thrown
        THEN [NoMatchResult EXCEPT !.type = "direct_match", !.abjadValue = abjadValue]
        ELSE [found |-> Len(looked.names) > 0,
              type |-> "direct_match",
              abjadValue |-> abjadValue,
              count |-> Len(looked.names),
              divineNames |-> looked.names,
              combinations |-> <<>>,
              responseTimeMs |-> ms]]

\* returns [thrown, error, result]
findDirectMatch(loader, abjadValue, ms) ==
    DirectResult(abjadValue, ms, getNamesByValue(loader, abjadValue))

\* the two ids in call order: A+B and B+A get different keys
CanonicalKey_unsorted(name1Id, name2Id) == JSONStringifyPair(<<name1Id, name2Id>>)

\* JSON.stringify([name1Id, name2Id].sort())
CanonicalKey(name1Id, name2Id) == JSONStringifyPair(DefaultSortPair(name1Id, name2Id))

\* the member of the smaller id is made name1
PairTurn_byId(acc, name1, name2Id, abjadValue, canonical, name2) ==
    IF name1.id = name2Id THEN acc
    ELSE IF canonical \in acc.recorded THEN acc
    ELSE IF name2.isNull THEN [acc EXCEPT !.recorded = @ \cup {canonical}]
    ELSE [recorded |-> acc.recorded \cup {canonical},
          list |-> Append(acc.list,
             IF name1.id < name2Id
             THEN [name1 |-> [id |-> name1.id, abjad_value |-> name1.abjad_value],
                   name2 |-> [id |-> name2Id, abjad_value |-> name2.name.abjad_value],
                   total |-> abjadValue]
             ELSE [name1 |-> [id |-> name2Id, abjad_value |-> name2.name.abjad_value],
                   name2 |-> [id |-> name1.id, abjad_value |-> name1.abjad_value],
                   total |-> abjadValue])]

\* a name is paired with itself like with any other
PairTurn_withSelf(acc, name1, name2Id, abjadValue, canonical, name2) ==
    IF canonical \in acc.recorded THEN acc
    ELSE IF name2.isNull THEN [acc EXCEPT !.recorded = @ \cup {canonical}]
    ELSE [recorded |-> acc.recorded \cup {canonical},
          list |-> Append(acc.list,
             [name1 |-> [id |-> name1.id, abjad_value |-> name1.abjad_value],
              name2 |-> [id |-> name2Id, abjad_value |-> name2.name.abjad_value],
              total |-> abjadValue])]

\* one turn of the inner loop of findTwoNameCombination: acc = [recorded, list]
\* after name2Id, whose key is canonical and whose name (or null) is name2
PairTurn(acc, name1, name2Id, abjadValue, canonical, name2) ==
    IF name1.id = name2Id THEN acc
    ELSE IF canonical \in acc.recorded THEN acc
    ELSE IF name2.isNull THEN [acc EXCEPT !.recorded = @ \cup {canonical}]
    ELSE [recorded |-> acc.recorded \cup {canonical},
          list |-> Append(acc.list,
             [name1 |-> [id |-> name1.id, abjad_value |-> name1.abjad_value],
              name2 |-> [id |-> name2Id, abjad_value |-> name2.name.abjad_value],
              total |-> abjadValue])]

\* the inner loop leaves after its first turn
PairInnerLoop_firstOnly(loader, name1, abjadValue, name2Ids, j, acc) ==
    IF j > Len(name2Ids) THEN acc
    ELSE PairTurn(acc, name1, name2Ids[j], abjadValue,
                  CanonicalKey(name1.id, name2Ids[j]),
                  _getNameById(loader, name2Ids[j]))

\* the inner loop of findTwoNameCombination from the j-th id of name2Ids on;
\* a turn is finished, and `after` is what it left, before the next begins
RECURSIVE PairInnerLoop(_, _, _, _, _, _)
PairInnerLoop(loader, name1, abjadValue, name2Ids, j, acc) ==
    IF j > Len(name2Ids) THEN acc
    ELSE CHOOSE rest \in
            {PairInnerLoop(loader, name1, abjadValue, name2Ids, j + 1, after) :
                after \in {PairTurn(acc, name1, name2Ids[j], abjadValue,
                                    CanonicalKey(name1.id, name2Ids[j]),
                                    _getNameById(loader, name2Ids[j]))}} : TRUE

\* availableValues.has(requiredValue)
HasRequiredValue(matcher, abjadValue, name1Value) ==
    /\ ~abjadValue.nan
    /\ (abjadValue.v - name1Value) \in {ToNumber(k) : k \in DOMAIN matcher.valueToIds}

\* the outer loop of findTwoNameCombination from the i-th name on, turn by
\* turn like the inner one
RECURSIVE PairOuterLoop(_, _, _, _, _)
PairOuterLoop(matcher, loader, abjadValue, i, acc) ==
    IF i > Len(loader.divineNames) THEN acc
    ELSE CHOOSE rest \in
            {PairOuterLoop(matcher, loader, abjadValue, i + 1, after) :
                after \in
                   {IF HasRequiredValue(matcher, abjadValue,
                                        loader.divineNames[i].abjad_value)
                    THEN PairInnerLoop(loader, loader.divineNames[i], abjadValue,
                            matcher.valueToIds[
                                StringOf(abjadValue.v
                                         - loader.divineNames[i].abjad_value)],
                            1, acc)
                    ELSE acc}} : TRUE

\* the comparator of the sort: negative when a goes before b
CompareCombinations(a, b) ==
    IF a.name1.id - b.name1.id # 0
    THEN a.name1.id - b.name1.id ELSE a.name2.id - b.name2.id

\* x put into a sorted list after the elements that do not go after it
InsertSorted(sorted, x) ==
    SelectSeq(sorted, LAMBDA y : CompareCombinations(y, x) <= 0)
    \o <<x>> \o SelectSeq(sorted, LAMBDA y : CompareCombinations(y, x) > 0)

\* Array.prototype.sort with the comparator (a stable sort)
RECURSIVE SortCombinations(_)
SortCombinations(list) ==
    IF Len(list) <= 1 THEN list
    ELSE InsertSorted(SortCombinations(SubSeq(list, 1, Len(list) - 1)), list[Len(list)])

DEFAULT_LIMIT == 10

\* the result of findTwoNameCombination from the sorted combinations
PairResult(abjadValue, limit, ms, sorted) ==
    [found |-> Min(limit, Len(sorted)) > 0,
     type |-> "two_name_combination",
     abjadValue |-> abjadValue,
     count |-> Min(limit, Len(sorted)),
     divineNames |-> <<>>,
     combinations |-> SubSeq(sorted, 1, Min(limit, Len(sorted))),
     responseTimeMs |-> ms]

\* the list is cut to the limit first and sorted afterwards
findTwoNameCombination_sliceFirst(matcher, loader, abjadValue, limit, ms) ==
    PairResult(abjadValue, limit, ms,
        SortCombinations(
            SubSeq(PairOuterLoop(matcher, loader, abjadValue, 1,
                                 [recorded |-> {}, list |-> <<>>]).list,
                   1,
                   Min(limit, Len(PairOuterLoop(matcher, loader, abjadValue, 1,
                                 [recorded |-> {}, list |-> <<>>]).list)))))

\* returns the result (it calls nothing that throws)
findTwoNameCombination(matcher, loader, abjadValue, limit, ms) ==
    PairResult(abjadValue, limit, ms,
        SortCombinations(
            PairOuterLoop(matcher, loader, abjadValue, 1,
                          [recorded |-> {}, list |-> <<>>]).list))

\* the end of findMatch, after findDirectMatch
AfterDirect(matcher, loader, abjadValue, ms, directResult) ==
    IF directResult.thrown THEN directResult
    ELSE IF directResult.result.found THEN directResult
    ELSE [thrown |-> FALSE, error |-> "",
          result |-> findTwoNameCombination(matcher, loader, abjadValue,
                                            DEFAULT_LIMIT, ms)]

\* the pair search is tried first and wins whenever it finds something
AfterPair(loader, abjadValue, ms, pair) ==
    IF pair.found /\ DOMAIN loader.namesIndex # {}
    THEN [thrown |-> FALSE, error |-> "", result |-> pair]
    ELSE findDirectMatch(loader, abjadValue, ms)

findMatch_pairFirst(matcher, loader, abjadValue, ms) ==
    AfterPair(loader, abjadValue, ms,
        findTwoNameCombination(matcher, loader, abjadValue, DEFAULT_LIMIT, ms))

\* returns [thrown, error, result]
findMatch(matcher, loader, abjadValue, ms) ==
    AfterDirect(matcher, loader, abjadValue, ms,
                findDirectMatch(loader, abjadValue, ms))

-----------------------------------------------------------------------------
(* Public API *)

\* An argument of a public function: a string (t = "str", v), an integer
\* (t = "num", n), a string that is no number (t = "str" given to
\* matchDivineNames), or null/undefined (t = "null")
Str(v) == [t |-> "str", v |-> v, n |-> 0]
Int_(n) == [t |-> "num", v |-> <<>>, n |-> n]
NullArg == [t |-> "null", v |-> <<>>, n |-> 0]

NoError == [prefix |-> "", errors |-> <<>>]

NoCalcReturn ==
    [threw |-> FALSE, success |-> FALSE, error |-> NoError, totalValue |-> 0,
     inputName |-> <<>>, cleanedName |-> <<>>, characterBreakdown |-> <<>>,
     charCount |-> 0]

NoMatchReturn ==
    [threw |-> FALSE, success |-> FALSE, error |-> NoError, found |-> FALSE,
     type |-> "none", hasAbjadValue |-> FALSE, abjadValue |-> Num(0),
     divineNames |-> <<>>, combinations |-> <<>>, count |-> 0,
     responseTimeMs |-> 0]

Stage(name, ok) == [stage |-> name, ok |-> ok]

initializeCalculator(dl, abjadValues, divineNames, namesIndex) ==
    loadAll(getDataLoader(dl), abjadValues, divineNames, namesIndex)

\* the records are handed on with the positions the calculator gave them
Renumbered_asGiven(characterBreakdown) == characterBreakdown

\* positions of the breakdown renumbered from 1
Renumbered(characterBreakdown) ==
    [i \in 1..Len(characterBreakdown) |->
        [position |-> i,
         character |-> characterBreakdown[i].character,
         value |-> characterBreakdown[i].value]]

\* the end of the try block of calculateAbjad, after calculateAbjadValue
AfterCalculate(out, name, calcResult) ==
    IF calcResult.thrown
    THEN [out EXCEPT !.thrown = TRUE, !.error = calcResult.error,
                     !.stages = Append(@, Stage("calculate", FALSE))]
    ELSE IF ~calcResult.result.success
    THEN [out EXCEPT !.stages = Append(@, Stage("calculate", FALSE)),
                     !.ret = [NoCalcReturn EXCEPT !.error =
                                [prefix |-> "", errors |-> calcResult.result.errors]]]
    ELSE [out EXCEPT !.stages = Append(@, Stage("calculate", TRUE)),
                     !.ret = [threw |-> FALSE,
                              success |-> TRUE,
                              error |-> NoError,
                              totalValue |-> calcResult.result.totalValue,
                              inputName |-> name.v,
                              cleanedName |-> calcResult.result.inputName,
                              characterBreakdown |->
                                  Renumbered(calcResult.result.characterBreakdown),
                              charCount |-> calcResult.result.charCount]]

\* the try block of calculateAbjad after processNameInput
AfterNormalize(dl, calc, name, validation) ==
    IF ~validation.status.success
    THEN [thrown |-> FALSE, error |-> "",
          ret |-> [NoCalcReturn EXCEPT !.error =
                     [prefix |-> "Invalid input: ", errors |-> validation.status.errors]],
          status |-> validation.status,
          stages |-> <<Stage("normalize", FALSE)>>,
          dataLoader |-> dl, calculator |-> calc]
    ELSE AfterCalculate(
            [thrown |-> FALSE, error |-> "", ret |-> NoCalcReturn,
             status |-> validation.status,
             stages |-> <<Stage("normalize", TRUE)>>,
             dataLoader |-> getDataLoader(dl), calculator |-> getCalculator(calc)],
            name, calculateAbjadValue(getDataLoader(dl), validation.cleaned))

\* the try block of calculateAbjad: [thrown, error, ret, status, stages,
\* dataLoader, calculator]
CalculateAbjadTry(dl, calc, name) ==
    IF name.t # "str"
    THEN \* removeSpaces calls trim() on a value that has none
         [thrown |-> TRUE, error |-> "TypeError", ret |-> NoCalcReturn,
          status |-> NoStatus, stages |-> <<Stage("normalize", FALSE)>>,
          dataLoader |-> dl, calculator |-> calc]
    ELSE AfterNormalize(dl, calc, name, processNameInput(name.v, FALSE))

\* catch (error) { return {success: false, error: error.message} }
CatchCalculate(try) ==
    IF try.thrown
    THEN [try EXCEPT !.ret = [NoCalcReturn EXCEPT !.error =
                        [prefix |-> "", errors |-> <<ErrorMsg(try.error)>>]]]
    ELSE try

calculateAbjad(dl, calc, name) == CatchCalculate(CalculateAbjadTry(dl, calc, name))

\* parseInt of the argument of matchDivineNames
parseInt(abjadValue) ==
    IF abjadValue.t = "num" THEN Num(ToNumber(StringOf(abjadValue.n))) ELSE NaN

\* the end of the try block of matchDivineNames, after findMatch
AfterFindMatch(loader, m, value, matchResult) ==
    [thrown |-> matchResult.thrown,
     error |-> matchResult.error,
     stages |-> <<Stage("match", ~matchResult.thrown)>>,
     dataLoader |-> loader,
     matcher |-> m,
     ret |->
        IF matchResult.thrown THEN NoMatchReturn
        ELSE IF matchResult.result.type = "direct_match"
        THEN [NoMatchReturn EXCEPT
                !.success = TRUE,
                !.found = matchResult.result.found,
                !.type = "direct_match",
                !.divineNames = matchResult.result.divineNames,
                !.count = matchResult.result.count,
                !.responseTimeMs = matchResult.result.responseTimeMs]
        ELSE [NoMatchReturn EXCEPT
                !.success = TRUE,
                !.found = matchResult.result.found,
                !.type = "two_name_combination",
                !.hasAbjadValue = TRUE,
                !.abjadValue = value,
                !.combinations = matchResult.result.combinations,
                !.count = matchResult.result.count,
                !.responseTimeMs = matchResult.result.responseTimeMs]]

\* the try block of matchDivineNames from getMatcher() on
WithMatcher(loader, m, value, ms) ==
    AfterFindMatch(loader, m, value, findMatch(m, loader, value, ms))

\* the try block of matchDivineNames: [thrown, error, ret, stages,
\* dataLoader, matcher]
MatchDivineNamesTry(dl, matcher, abjadValue, ms) ==
    IF abjadValue.t = "null"
    THEN [thrown |-> FALSE, error |-> "", stages |-> <<>>,
          dataLoader |-> dl, matcher |-> matcher,
          ret |-> [NoMatchReturn EXCEPT !.error =
                     [prefix |-> "", errors |-> <<ErrorMsg("Abjad value is required")>>]]]
    ELSE WithMatcher(getDataLoader(dl), getMatcher(matcher, getDataLoader(dl)),
                     parseInt(abjadValue), ms)

\* no catch: what the try block throws leaves the function
CatchMatch_none(try) ==
    IF try.thrown THEN [try EXCEPT !.ret = [NoMatchReturn EXCEPT !.threw = TRUE]]
    ELSE try

\* catch (error) { return {success: false, error: error.message} }
CatchMatch(try) ==
    IF try.thrown
    THEN [try EXCEPT !.ret = [NoMatchReturn EXCEPT !.error =
                        [prefix |-> "", errors |-> <<ErrorMsg(try.error)>>]]]
    ELSE try

matchDivineNames(dl, matcher, abjadValue, ms) ==
    CatchMatch(MatchDivineNamesTry(dl, matcher, abjadValue, ms))

-----------------------------------------------------------------------------
(* Page controller *)

NoShownCalc ==
    [shown |-> FALSE, originalName |-> <<>>, cleanedName |-> <<>>,
     breakdown |-> <<>>, totalValue |-> 0]

NoShownMatch ==
    [kind |-> "empty", hasValue |-> FALSE, value |-> Num(0), count |-> 0,
     divineNames |-> <<>>, combinations |-> <<>>]

InitialUi ==
    [nameInput |-> <<>>,
     errorText |-> NoError, errorDisplay |-> "none",
     resultSection |-> "none", emptyState |-> "none",
     calc |-> NoShownCalc, match |-> NoShownMatch,
     lastCalculatedName |-> <<>>, lastAbjadValue |-> 0,
     lastCalculationResult |-> NoMatchReturn, hasLastResult |-> FALSE,
     isLoading |-> FALSE, ready |-> FALSE]

UiError(msg) == [prefix |-> "", errors |-> <<ErrorMsg(msg)>>]

showError(u, message) == [u EXCEPT !.errorText = message, !.errorDisplay = "block"]

clearError(u) == [u EXCEPT !.errorText = NoError, !.errorDisplay = "none"]

setLoading(u, isLoading) == [u EXCEPT !.isLoading = isLoading]

displayCalculationResults(u, calcResult) ==
    [u EXCEPT !.resultSection = "block", !.emptyState = "none",
              !.calc = [shown |-> TRUE,
                        originalName |-> calcResult.inputName,
                        cleanedName |-> calcResult.cleanedName,
                        breakdown |-> calcResult.characterBreakdown,
                        totalValue |-> calcResult.totalValue]]

\* the value shown is matchResult.abjadValue, which a direct result lacks
displayMatchResults(u, matchResult) ==
    [u EXCEPT !.match =
        IF ~matchResult.found
        THEN [NoShownMatch EXCEPT !.kind = "notfound",
                                  !.hasValue = matchResult.hasAbjadValue,
                                  !.value = matchResult.abjadValue]
        ELSE IF matchResult.type = "direct_match"
        THEN [NoShownMatch EXCEPT !.kind = "direct",
                                  !.hasValue = matchResult.hasAbjadValue,
                                  !.value = matchResult.abjadValue,
                                  !.count = matchResult.count,
                                  !.divineNames = matchResult.divineNames]
        ELSE IF matchResult.type = "two_name_combination"
        THEN [NoShownMatch EXCEPT !.kind = "pair",
                                  !.hasValue = matchResult.hasAbjadValue,
                                  !.value = matchResult.abjadValue,
                                  !.count = matchResult.count,
                                  !.combinations = matchResult.combinations]
        ELSE NoShownMatch]

\* error.message || fallback
ErrorOr(error, fallback) ==
    IF error.prefix = "" /\ error.errors = <<>> THEN UiError(fallback) ELSE error

\* the end of handleCalculate, after matchDivineNames returned m
AfterMatch(out, u, m) ==
    [out EXCEPT
        !.ui = setLoading(
                  IF m.ret.success
                  THEN displayMatchResults(
                          [u EXCEPT !.lastCalculationResult = m.ret,
                                    !.hasLastResult = TRUE], m.ret)
                  ELSE showError(u, ErrorOr(m.ret.error,
                                            "Failed to find matching Divine Names")),
                  FALSE),
        !.stages = @ \o m.stages,
        !.matchReturn = m.ret,
        !.dataLoader = m.dataLoader,
        !.matcher = m.matcher]

\* the matcher is asked whatever the calculator said
AfterCalculateAbjad_matchAlways(u, matcher, name, ms, c) ==
    AfterMatch(
        [ui |-> u, stages |-> c.stages, status |-> c.status,
         calcReturn |-> c.ret, matchReturn |-> NoMatchReturn,
         dataLoader |-> c.dataLoader, calculator |-> c.calculator,
         matcher |-> matcher],
        displayCalculationResults(u, c.ret),
        matchDivineNames(c.dataLoader, matcher, Int_(c.ret.totalValue), ms))

\* handleCalculate after calculateAbjad returned c; u is the page by then
AfterCalculateAbjad(u, matcher, name, ms, c) ==
    IF ~c.ret.success
    THEN [ui |-> setLoading(
                    showError(u, ErrorOr(c.ret.error, "Failed to calculate Abjad value")),
                    FALSE),
          stages |-> c.stages, status |-> c.status,
          calcReturn |-> c.ret, matchReturn |-> NoMatchReturn,
          dataLoader |-> c.dataLoader, calculator |-> c.calculator,
          matcher |-> matcher]
    ELSE AfterMatch(
            [ui |-> u, stages |-> c.stages, status |-> c.status,
             calcReturn |-> c.ret, matchReturn |-> NoMatchReturn,
             dataLoader |-> c.dataLoader, calculator |-> c.calculator,
             matcher |-> matcher],
            displayCalculationResults(
                [u EXCEPT !.lastCalculatedName = name,
                          !.lastAbjadValue = c.ret.totalValue], c.ret),
            matchDivineNames(c.dataLoader, matcher, Int_(c.ret.totalValue), ms))

\* handleCalculate with the trimmed input `name`; u holds the typed text
WithName(dl, calc, matcher, u, name, ms) ==
    IF name = <<>>
    THEN [ui |-> showError(u, UiError("Please enter a name")),
          stages |-> <<>>, status |-> NoStatus,
          calcReturn |-> NoCalcReturn, matchReturn |-> NoMatchReturn,
          dataLoader |-> dl, calculator |-> calc, matcher |-> matcher]
    ELSE AfterCalculateAbjad(setLoading(clearError(u), TRUE), matcher, name, ms,
                             calculateAbjad(dl, calc, Str(name)))

\* handleCalculate with `typed` in the input box: [ui, stages, status,
\* calcReturn, matchReturn, dataLoader, calculator, matcher]
handleCalculate(dl, calc, matcher, u, typed, ms) ==
    WithName(dl, calc, matcher, [u EXCEPT !.nameInput = typed], trim(typed), ms)

handleClear(u) ==
    [clearError(u) EXCEPT !.nameInput = <<>>,
                          !.resultSection = "none", !.emptyState = "block",
                          !.lastCalculatedName = <<>>, !.lastAbjadValue = 0,
                          !.lastCalculationResult = NoMatchReturn,
                          !.hasLastResult = FALSE]

-----------------------------------------------------------------------------
(* data-loader.js: start-up *)

InitialApp == [DIVINE_NAMES |-> <<>>, NAMES_INDEX |-> <<>>, started |-> "pending"]

\* what the fetch of the catalog file gave: a body, or no usable response
Fetched(catalog) == [ok |-> TRUE, body |-> catalog]
FetchFailed == [ok |-> FALSE, body |-> <<>>]

\* loadDivineNames once the fetch has settled: [loaded, DIVINE_NAMES, NAMES_INDEX]
loadDivineNames(a, fetched) ==
    IF fetched.ok
    THEN [loaded |-> TRUE, DIVINE_NAMES |-> fetched.body,
          NAMES_INDEX |-> buildNamesIndex(fetched.body)]
    ELSE [loaded |-> FALSE, DIVINE_NAMES |-> a.DIVINE_NAMES,
          NAMES_INDEX |-> a.NAMES_INDEX]

showInitError(u, message) == [u EXCEPT !.errorText = message, !.errorDisplay = "block"]

\* the length of DIVINE_NAMES is not looked at
AfterLoad_anyLength(a, u, dl, l) ==
    IF ~l.loaded
    THEN [app |-> [DIVINE_NAMES |-> l.DIVINE_NAMES, NAMES_INDEX |-> l.NAMES_INDEX,
                   started |-> "failed"],
          ui |-> showInitError(u, UiError("Failed to load Divine Names data.")),
          dataLoader |-> dl]
    ELSE [app |-> [DIVINE_NAMES |-> l.DIVINE_NAMES, NAMES_INDEX |-> l.NAMES_INDEX,
                   started |-> "ok"],
          ui |-> u,
          dataLoader |-> initializeCalculator(dl, ABJAD_VALUES, l.DIVINE_NAMES,
                                              l.NAMES_INDEX)]

\* initializeApp after loadDivineNames returned l
AfterLoad(a, u, dl, l) ==
    IF ~l.loaded \/ Len(l.DIVINE_NAMES) = 0
    THEN [app |-> [DIVINE_NAMES |-> l.DIVINE_NAMES, NAMES_INDEX |-> l.NAMES_INDEX,
                   started |-> "failed"],
          ui |-> showInitError(u, UiError("Failed to load Divine Names data.")),
          dataLoader |-> dl]
    ELSE [app |-> [DIVINE_NAMES |-> l.DIVINE_NAMES, NAMES_INDEX |-> l.NAMES_INDEX,
                   started |-> "ok"],
          ui |-> u,
          dataLoader |-> initializeCalculator(dl, ABJAD_VALUES, l.DIVINE_NAMES,
                                              l.NAMES_INDEX)]

\* initializeApp once the fetch has settled: [app, ui, dataLoader]
initializeApp(a, u, dl, fetched) == AfterLoad(a, u, dl, loadDivineNames(a, fetched))

-----------------------------------------------------------------------------
(* Inputs *)

Entities(ids, values) == [id : ids, abjad_value : values]

\* catalogs of exactly k entities with distinct ids; ascending ids if sorted
RECURSIVE CatalogsOfLen(_, _, _, _)
CatalogsOfLen(ids, values, k, sorted) ==
    IF k = 0 THEN {<<>>}
    ELSE {Append(c, e) : <<c, e>> \in
            {ce \in CatalogsOfLen(ids, values, k - 1, sorted) \X Entities(ids, values) :
                /\ \A i \in 1..Len(ce[1]) : ce[1][i].id # ce[2].id
                /\ sorted => \A i \in 1..Len(ce[1]) : ce[1][i].id < ce[2].id}}

CatalogsUpTo(ids, values, maxLen, sorted) ==
    UNION {CatalogsOfLen(ids, values, k, sorted) : k \in 0..maxLen}

\* catalogs of the single-load specification: any order of ids
Catalogs == CatalogsUpTo(IdBase..(IdBase + MaxCat - 1), 1..MaxValue, MaxCat, FALSE)

\* entity values of the reload and page specifications
ReloadValues == {1, 2}

\* catalogs of the reload and page specifications: ascending ids
ReloadCatalogs ==
    CatalogsUpTo(IdBase..(IdBase + ReloadLen - 1), ReloadValues, ReloadLen, TRUE)

Reverse(s) == [i \in 1..Len(s) |-> s[Len(s) + 1 - i]]

\* catalogs of the limit specification: ids IdBase, IdBase + 1, ... in
\* ascending or in descending order
AscendingCatalogs ==
    UNION {{[i \in 1..k |-> [id |-> IdBase + i - 1, abjad_value |-> f[i]]] :
                f \in [1..k -> ReloadValues]} : k \in 0..ManyCat}

ManyCatalogs == AscendingCatalogs \cup {Reverse(c) : c \in AscendingCatalogs}

\* what a timer may report
Elapsed == {0, 1}

\* targets: every value a catalog entity or a pair of them can have, and beyond;
\* a string that is no number; null
Largest(values) == CHOOSE v \in values : \A w \in values : w <= v

TargetsOf(values) ==
    {Int_(n) : n \in 0..(2 * Largest(values) + 1)} \cup {Str(<<Other.latin>>), NullArg}

RECURSIVE StringsUpTo(_, _)
StringsUpTo(alphabet, n) ==
    IF n = 0 THEN {<<>>}
    ELSE LET shorter == StringsUpTo(alphabet, n - 1)
         IN  shorter \cup {Append(s, c) : <<s, c>> \in
                              {sc \in shorter \X alphabet : Len(sc[1]) = n - 1}}

TextAlphabet ==
    {SPACE, Other.tab, FATHA, ALEF, BEH, HEH_GOAL, Other.comma, Other.latin}

\* texts typed into the page's input box
UiNames ==
    {<<>>, <<SPACE>>, <<ALEF>>, <<BEH>>, <<ALEF, BEH>>, <<SPACE, BEH, BEH>>,
     <<Other.latin>>, <<Other.comma>>, <<ALEF, Other.latin>>}

\* names given to calculateAbjad in the reload specification
ApiNames ==
    {Str(<<>>), Str(<<ALEF>>), Str(<<Other.latin>>), Str(<<Other.comma>>),
     Str(<<ALEF, Other.latin>>), Str(<<FATHA, BEH>>), NullArg}

SampleCatalog == <<[id |-> IdBase, abjad_value |-> 1]>>

-----------------------------------------------------------------------------
(* State machine *)

NoCall == [op |-> "none", arg |-> NullArg, opt |-> FALSE]

Init ==
    /\ _dataLoader = NullDataLoader
    /\ _calculator = [isNull |-> TRUE]
    /\ _matcher = NullMatcher
    /\ call = NoCall
    /\ stages = <<>>
    /\ normStatus = NoStatus
    /\ calcReturn = NoCalcReturn
    /\ matchReturn = NoMatchReturn
    /\ ui = InitialUi
    /\ app = InitialApp

\* initializeCalculator(ABJAD_VALUES, catalog, index built from catalog)
InitializeCalculator(catalog) ==
    /\ _dataLoader' = initializeCalculator(_dataLoader, ABJAD_VALUES, catalog,
                                           buildNamesIndex(catalog))
    /\ call' = [NoCall EXCEPT !.op = "initializeCalculator"]
    /\ stages' = <<>>
    /\ normStatus' = NoStatus
    /\ calcReturn' = NoCalcReturn
    /\ matchReturn' = NoMatchReturn
    /\ UNCHANGED << _calculator, _matcher, ui, app >>

CalculateAbjadReturns(name, out) ==
    /\ _dataLoader' = out.dataLoader
    /\ _calculator' = out.calculator
    /\ call' = [op |-> "calculateAbjad", arg |-> name, opt |-> FALSE]
    /\ stages' = out.stages
    /\ normStatus' = out.status
    /\ calcReturn' = out.ret
    /\ matchReturn' = NoMatchReturn
    /\ UNCHANGED << _matcher, ui, app >>

CalculateAbjad(name) ==
    CalculateAbjadReturns(name, calculateAbjad(_dataLoader, _calculator, name))

MatchDivineNamesReturns(abjadValue, out) ==
    /\ _dataLoader' = out.dataLoader
    /\ _matcher' = out.matcher
    /\ call' = [op |-> "matchDivineNames", arg |-> abjadValue, opt |-> FALSE]
    /\ stages' = out.stages
    /\ normStatus' = NoStatus
    /\ calcReturn' = NoCalcReturn
    /\ matchReturn' = out.ret
    /\ UNCHANGED << _calculator, ui, app >>

MatchDivineNames(abjadValue, ms) ==
    MatchDivineNamesReturns(abjadValue,
        matchDivineNames(_dataLoader, _matcher, abjadValue, ms))

Next ==
    \/ \E catalog \in ReloadCatalogs : InitializeCalculator(catalog)
    \/ \E name \in ApiNames : CalculateAbjad(name)
    \/ \E t \in TargetsOf(ReloadValues), ms \in Elapsed : MatchDivineNames(t, ms)

Spec == Init /\ [][Next]_vars

(* One catalog loaded once, then any number of match calls *)

Loaded(catalog) ==
    /\ _dataLoader = initializeCalculator(NullDataLoader, ABJAD_VALUES, catalog,
                                          buildNamesIndex(catalog))
    /\ _calculator = [isNull |-> TRUE]
    /\ _matcher = NullMatcher
    /\ call = [NoCall EXCEPT !.op = "initializeCalculator"]
    /\ stages = <<>>
    /\ normStatus = NoStatus
    /\ calcReturn = NoCalcReturn
    /\ matchReturn = NoMatchReturn
    /\ ui = InitialUi
    /\ app = InitialApp

InitMatch == \E catalog \in Catalogs : Loaded(catalog)

NextMatch ==
    \E t \in TargetsOf(1..MaxValue), ms \in Elapsed : MatchDivineNames(t, ms)

SpecMatch == InitMatch /\ [][NextMatch]_vars

(* One catalog of up to ManyCat entities, then any number of match calls *)

InitLimit == \E catalog \in ManyCatalogs : Loaded(catalog)

NextLimit ==
    \E t \in TargetsOf(ReloadValues), ms \in Elapsed : MatchDivineNames(t, ms)

SpecLimit == InitLimit /\ [][NextLimit]_vars

(* Calls before and after the one initializeCalculator of a session *)

\* initializeCalculator was not called yet: no letter values are loaded
Uninitialized == DOMAIN _dataLoader.abjadValues = {}

FirstInitialize ==
    /\ Uninitialized
    /\ \E catalog \in ReloadCatalogs : InitializeCalculator(catalog)

NextEarly ==
    \/ FirstInitialize
    \/ \E name \in ApiNames : CalculateAbjad(name)
    \/ \E t \in TargetsOf(ReloadValues), ms \in Elapsed : MatchDivineNames(t, ms)

SpecEarly == Init /\ [][NextEarly]_vars

(* The text functions, each applied once to an input string *)

InitText ==
    \E text \in StringsUpTo(TextAlphabet, MaxLen) :
        /\ _dataLoader = initializeCalculator(NullDataLoader, ABJAD_VALUES, SampleCatalog,
                                              buildNamesIndex(SampleCatalog))
        /\ _calculator = [isNull |-> TRUE]
        /\ _matcher = NullMatcher
        /\ call = [op |-> "input", arg |-> Str(text), opt |-> FALSE]
        /\ stages = <<>>
        /\ normStatus = NoStatus
        /\ calcReturn = NoCalcReturn
        /\ matchReturn = NoMatchReturn
        /\ ui = InitialUi
        /\ app = InitialApp

ProcessNameInput(removeSpacesBetween) ==
    /\ call.op = "input"
    /\ call' = [call EXCEPT !.op = "processNameInput", !.opt = removeSpacesBetween]
    /\ normStatus' = processNameInput(call.arg.v, removeSpacesBetween).status
    /\ stages' = <<Stage("normalize", normStatus'.success)>>
    /\ UNCHANGED << _dataLoader, _calculator, _matcher, calcReturn, matchReturn, ui, app >>

CalculateText ==
    /\ call.op = "input"
    /\ CalculateAbjad(call.arg)

NextText ==
    \/ \E removeSpacesBetween \in BOOLEAN : ProcessNameInput(removeSpacesBetween)
    \/ CalculateText

SpecText == InitText /\ [][NextText]_vars

(* The page: start-up, then Calculate and Clear clicks *)

InitializeAppReturns(out) ==
    /\ app.started = "pending"
    /\ app' = out.app
    /\ ui' = out.ui
    /\ _dataLoader' = out.dataLoader
    /\ call' = [NoCall EXCEPT !.op = "initializeApp"]
    /\ stages' = <<>>
    /\ normStatus' = NoStatus
    /\ calcReturn' = NoCalcReturn
    /\ matchReturn' = NoMatchReturn
    /\ UNCHANGED << _calculator, _matcher >>

InitializeApp(fetched) ==
    InitializeAppReturns(initializeApp(app, ui, _dataLoader, fetched))

HandleCalculateReturns(typed, out) ==
    /\ ui' = out.ui
    /\ _dataLoader' = out.dataLoader
    /\ _calculator' = out.calculator
    /\ _matcher' = out.matcher
    /\ call' = [op |-> "handleCalculate", arg |-> Str(typed), opt |-> FALSE]
    /\ stages' = out.stages
    /\ normStatus' = out.status
    /\ calcReturn' = out.calcReturn
    /\ matchReturn' = out.matchReturn
    /\ UNCHANGED app

HandleCalculate(typed, ms) ==
    HandleCalculateReturns(typed,
        handleCalculate(_dataLoader, _calculator, _matcher, ui, typed, ms))

HandleClear ==
    /\ ui' = handleClear(ui)
    /\ call' = [NoCall EXCEPT !.op = "handleClear"]
    /\ stages' = <<>>
    /\ normStatus' = NoStatus
    /\ calcReturn' = NoCalcReturn
    /\ matchReturn' = NoMatchReturn
    /\ UNCHANGED << _dataLoader, _calculator, _matcher, app >>

\* waitForCalculator resolves (by its timeout) and the empty state is shown
WaitForCalculator ==
    /\ ~ui.ready
    /\ ui' = [ui EXCEPT !.ready = TRUE, !.emptyState = "block"]
    /\ UNCHANGED << _dataLoader, _calculator, _matcher, call, stages, normStatus,
                    calcReturn, matchReturn, app >>

NextApp ==
    \/ \E catalog \in ReloadCatalogs : InitializeApp(Fetched(catalog))
    \/ InitializeApp(FetchFailed)
    \/ \E typed \in UiNames, ms \in Elapsed :
            HandleCalculate(typed, ms)
    \/ HandleClear
    \/ WaitForCalculator

SpecApp == Init /\ [][NextApp]_vars

-----------------------------------------------------------------------------
(* Properties *)

\* the combinations of the result of the last matchDivineNames call
Combinations == matchReturn.combinations

\* the entities of the loaded catalog whose value is v, in catalog order
EntitiesValued(v) ==
    SelectSeq(_dataLoader.divineNames, LAMBDA e : e.abjad_value = v)

\* C1: every combination of a pair result returned by matchDivineNames(v), after
\* any sequence of initializeCalculator and matchDivineNames calls, has two
\* different ids, total = v, and values of name1 and name2 that add up to v
C1_PairSoundness ==
    (call.op = "matchDivineNames" /\ matchReturn.type = "two_name_combination") =>
        \A i \in 1..Len(Combinations) :
            /\ Combinations[i].name1.id # Combinations[i].name2.id
            /\ Combinations[i].total = parseInt(call.arg)
            /\ Combinations[i].name1.abjad_value + Combinations[i].name2.abjad_value
                  = Combinations[i].total.v

\* C2: no unordered pair of ids occurs in two combinations of one
\* matchDivineNames result, ids of several digits included
C2_PairUniqueness ==
    call.op = "matchDivineNames" =>
        \A i, j \in 1..Len(Combinations) :
            ({Combinations[i].name1.id, Combinations[i].name2.id}
                = {Combinations[j].name1.id, Combinations[j].name2.id}) => i = j

\* a result of several pairs, one of them of two ids that sort() puts in the
\* other order than their numbers (10 before 8)
C2_Witness ==
    /\ call.op = "matchDivineNames"
    /\ Len(Combinations) >= 2
    /\ \E i \in 1..Len(Combinations) :
          /\ Combinations[i].name1.id < Combinations[i].name2.id
          /\ StringLess(StringOf(Combinations[i].name2.id),
                        StringOf(Combinations[i].name1.id))

\* C3: when an entity of the loaded catalog has value v, matchDivineNames(v)
\* returns a direct result and no pair result; no result holds both names of a
\* direct match and combinations
C3_DirectPriority ==
    /\ (call.op = "matchDivineNames" /\ call.arg.t = "num"
            /\ EntitiesValued(call.arg.n) # <<>>)
          => (matchReturn.type = "direct_match" /\ matchReturn.found
                /\ Combinations = <<>>)
    /\ ~(matchReturn.divineNames # <<>> /\ Combinations # <<>>)

\* a direct result for a value that two other entities add up to as well
C3_Witness ==
    /\ call.op = "matchDivineNames"
    /\ matchReturn.type = "direct_match"
    /\ matchReturn.found
    /\ findTwoNameCombination(_matcher, _dataLoader, parseInt(call.arg),
                              DEFAULT_LIMIT, 0).found

\* C4: after initializeCalculator was called again, every matchDivineNames call
\* returns what a matcher built from the catalog loaded last returns: nothing
\* derived from an earlier catalog is used
C4_ReloadRebuildsIndex ==
    call.op = "matchDivineNames" =>
        matchReturn = matchDivineNames(_dataLoader, NullMatcher, call.arg,
                                       matchReturn.responseTimeMs).ret

\* C5: in handleCalculate the calculator runs only right after a successful
\* normalizer and the matcher only right after a successful calculator; after a
\* failed calculation nothing of a match is returned
C5_StrictPipeline ==
    /\ \A i \in 1..Len(stages) :
          /\ stages[i].stage = "calculate" =>
                (i > 1 /\ stages[i - 1] = Stage("normalize", TRUE))
          /\ stages[i].stage = "match" =>
                (i > 1 /\ stages[i - 1] = Stage("calculate", TRUE))
    /\ (call.op = "handleCalculate" /\ ~calcReturn.success) =>
          matchReturn = NoMatchReturn

\* a click whose name passed the normalizer and failed in the calculator
C5_Witness ==
    /\ call.op = "handleCalculate"
    /\ stages = <<Stage("normalize", TRUE), Stage("calculate", FALSE)>>

RECURSIVE SumOfValues(_)
SumOfValues(breakdown) ==
    IF breakdown = <<>> THEN 0
    ELSE Head(breakdown).value + SumOfValues(Tail(breakdown))

\* C6: after a successful calculation totalValue is the sum of the values of
\* characterBreakdown and charCount is the number of its records
C6_SumInvariant ==
    calcReturn.success =>
        /\ calcReturn.totalValue = SumOfValues(calcReturn.characterBreakdown)
        /\ calcReturn.charCount = Len(calcReturn.characterBreakdown)

\* a successful calculation of several letters with a character in between
\* that has no weight and is skipped
C6_Witness ==
    /\ calcReturn.success
    /\ Len(calcReturn.characterBreakdown) >= 2
    /\ Len(calcReturn.cleanedName) > calcReturn.charCount

\* C7: processNameInput applied to the cleaned text it returned returns the
\* same cleaned text again
C7_NormalizerIdempotent ==
    call.op = "processNameInput" =>
        processNameInput(normStatus.cleaned, call.opt).cleaned = normStatus.cleaned

\* an input of a letter, a variant letter, a diacritic, an inner whitespace and
\* a character outside the script, cleaned with success
C7_Witness ==
    /\ call.op = "processNameInput"
    /\ normStatus.success
    /\ \E i, j, k, l, m \in 1..Len(call.arg.v) :
          /\ call.arg.v[i] \in DOMAIN ABJAD_VALUES \ DOMAIN ARABIC_CHAR_VARIANTS
          /\ call.arg.v[j] \in DOMAIN ARABIC_CHAR_VARIANTS
          /\ call.arg.v[k] \in ARABIC_DIACRITICS
          /\ IsWhitespace(call.arg.v[l]) /\ 1 < l /\ l < Len(call.arg.v)
          /\ ~IsWhitespace(call.arg.v[m]) /\ ~isArabicUrduChar(call.arg.v[m])

\* C8: calculateAbjad and matchDivineNames return a result and throw nothing,
\* whatever the argument and the state; with no value table or no names index
\* loaded, the call that reads it returns success = false and an error text
C8_NoExceptionCrosses ==
    /\ ~calcReturn.threw
    /\ ~matchReturn.threw
    /\ (call.op = "calculateAbjad" /\ normStatus.success
            /\ DOMAIN _dataLoader.abjadValues = {})
          => (~calcReturn.success /\ calcReturn.error.errors # <<>>)
    /\ (call.op = "matchDivineNames" /\ call.arg.t # "null"
            /\ DOMAIN _dataLoader.namesIndex = {})
          => (~matchReturn.success /\ matchReturn.error.errors # <<>>)

\* matchDivineNames of a number before any initializeCalculator: the names
\* index threw inside and the call returned the failure
C8_Witness ==
    /\ call.op = "matchDivineNames"
    /\ call.arg.t = "num"
    /\ _dataLoader.divineNames = <<>>
    /\ ~matchReturn.success
    /\ matchReturn.error.errors =
          <<ErrorMsg("Names index not loaded. Call loadAll() first.")>>

\* C9: processNameInput reports success only with an empty error list; an input
\* with a character outside the script gets the non-Arabic error, no success,
\* and the calculator is not run; without errors the result is a success
\* whatever the warnings
C9_ErrorsAbort ==
    (call.op \in {"processNameInput", "calculateAbjad"} /\ call.arg.t = "str") =>
        /\ normStatus.success => normStatus.errors = <<>>
        /\ (\E i \in 1..Len(call.arg.v) :
                ~IsWhitespace(call.arg.v[i]) /\ ~isArabicUrduChar(call.arg.v[i]))
              => /\ \E e \in 1..Len(normStatus.errors) :
                        normStatus.errors[e].msg = "Non-Arabic characters found"
                 /\ ~normStatus.success
                 /\ \A s \in 1..Len(stages) : stages[s].stage # "calculate"
        /\ normStatus.errors = <<>> => normStatus.success

\* C10: the names index maps each value to the entities of the catalog with
\* that value, each once, in catalog order, and has no other key; when an
\* entity has value v, matchDivineNames(v) returns found, type direct, that
\* whole list in catalog order and its length as count
C10_DirectMatchContent ==
    /\ \A k \in DOMAIN _dataLoader.namesIndex :
          /\ _dataLoader.namesIndex[k] # <<>>
          /\ _dataLoader.namesIndex[k] =
                SelectSeq(_dataLoader.divineNames,
                          LAMBDA e : StringOf(e.abjad_value) = k)
    /\ \A i \in 1..Len(_dataLoader.divineNames) :
          StringOf(_dataLoader.divineNames[i].abjad_value)
             \in DOMAIN _dataLoader.namesIndex
    /\ (call.op = "matchDivineNames" /\ call.arg.t = "num"
            /\ EntitiesValued(call.arg.n) # <<>>)
          => /\ matchReturn.success
             /\ matchReturn.found
             /\ matchReturn.type = "direct_match"
             /\ matchReturn.divineNames = EntitiesValued(call.arg.n)
             /\ matchReturn.count = Len(EntitiesValued(call.arg.n))

\* two entities of one value, the one with the larger id first in the catalog:
\* count = 2 and the names in catalog order
C10_Witness ==
    /\ call.op = "matchDivineNames"
    /\ matchReturn.type = "direct_match"
    /\ matchReturn.count = 2
    /\ matchReturn.divineNames[1].id > matchReturn.divineNames[2].id

\* every combination the pair search of the last matchDivineNames call
\* recorded, in the order of recording, before the sort and the cut
Recorded ==
    PairOuterLoop(_matcher, _dataLoader, parseInt(call.arg), 1,
                  [recorded |-> {}, list |-> <<>>]).list

\* a goes before b in the order of (name1.id, name2.id)
PairBefore(a, b) ==
    \/ a.name1.id < b.name1.id
    \/ (a.name1.id = b.name1.id /\ a.name2.id < b.name2.id)

\* C11: the combinations of a pair result are strictly ascending in
\* (name1.id, name2.id); they are the min(10, n) smallest of the n recorded
\* combinations; count is their number and at most 10
C11_PairOrderAndLimit ==
    (call.op = "matchDivineNames" /\ matchReturn.type = "two_name_combination") =>
        /\ \A i, j \in 1..Len(Combinations) :
              i < j => PairBefore(Combinations[i], Combinations[j])
        /\ Len(Combinations) = Min(10, Len(Recorded))
        /\ \A i \in 1..Len(Combinations) :
              \E r \in 1..Len(Recorded) : Recorded[r] = Combinations[i]
        /\ \A r \in 1..Len(Recorded) :
              \/ \E i \in 1..Len(Combinations) : Combinations[i] = Recorded[r]
              \/ \A i \in 1..Len(Combinations) : PairBefore(Combinations[i], Recorded[r])
        /\ matchReturn.count = Len(Combinations)
        /\ matchReturn.count <= 10

\* more than 10 combinations recorded, 10 returned, and one of the first 10
\* recorded is not among them: the sort came before the cut
C11_Witness ==
    /\ call.op = "matchDivineNames"
    /\ Len(Recorded) > 10
    /\ matchReturn.count = 10
    /\ \E r \in 1..10 : \A i \in 1..Len(Combinations) : Combinations[i] # Recorded[r]

\* two entities of the loaded catalog with different ids whose values add up to v
SomePairSums(v) ==
    \E i, j \in 1..Len(_dataLoader.divineNames) :
        /\ _dataLoader.divineNames[i].id # _dataLoader.divineNames[j].id
        /\ _dataLoader.divineNames[i].abjad_value
              + _dataLoader.divineNames[j].abjad_value = v

\* C12: after initializeCalculator with any catalog, matchDivineNames(v) of
\* any target returns a result in which found, count > 0 and a non-empty
\* result list are the same; when no entity has value v and no two entities
\* add up to v the result is found = false, count 0, no combinations, no error
C12_FoundFlag ==
    (call.op = "matchDivineNames" /\ call.arg.t # "null") =>
        /\ matchReturn.success
        /\ matchReturn.found <=> (matchReturn.count > 0)
        /\ matchReturn.found <=>
              (matchReturn.divineNames # <<>> \/ Combinations # <<>>)
        /\ (call.arg.t = "num" /\ EntitiesValued(call.arg.n) = <<>>
                /\ ~SomePairSums(call.arg.n))
              => (~matchReturn.found /\ matchReturn.count = 0
                    /\ matchReturn.divineNames = <<>> /\ Combinations = <<>>)

\* the position fields of the breakdown are 1, 2, ..., n in order
PositionsFromOne(breakdown) ==
    \A i \in 1..Len(breakdown) : breakdown[i].position = i

\* the result of the calculator itself (calculateAbjadValue) in the last
\* calculateAbjad call: it was given the cleaned text of the normalizer
CalculatorResult == calculateAbjadValue(_dataLoader, normStatus.cleaned).result

\* C13 (as amended): in every successful result of calculateAbjad the
\* positions of characterBreakdown are 1, 2, ..., n in order, whatever
\* characters were skipped before
C13_FacadePositions ==
    (call.op = "calculateAbjad" /\ calcReturn.success) =>
        PositionsFromOne(calcReturn.characterBreakdown)

\* a successful calculation in which a skipped character comes before a
\* counted one
C13_Witness ==
    /\ call.op = "calculateAbjad"
    /\ calcReturn.success
    /\ \E i, j \in 1..Len(calcReturn.cleanedName) :
          /\ i < j
          /\ calcReturn.cleanedName[i] \notin DOMAIN ABJAD_VALUES
          /\ calcReturn.cleanedName[j] \in DOMAIN ABJAD_VALUES

\* C13 (as stated): in every calculation result, the calculator's own and the
\* one calculateAbjad returns, the positions of characterBreakdown are
\* 1, 2, ..., n in order
C13_EveryResultPositions ==
    (call.op = "calculateAbjad" /\ calcReturn.success) =>
        /\ PositionsFromOne(calcReturn.characterBreakdown)
        /\ PositionsFromOne(CalculatorResult.characterBreakdown)

\* the characters of the text that are keys of the value table, in order
MappedLetters(text) == SelectSeq(text, LAMBDA c : c \in DOMAIN ABJAD_VALUES)

\* C14: the breakdown of the calculator is the subsequence of the characters
\* of the cleaned text that are keys of the value table, in order, each with
\* its table weight; every other character (spaces included) adds one warning
\* and nothing else, so len(breakdown) + len(warnings) = len(cleaned); the
\* total is the sum of the weights and calculateAbjad hands the same on
C14_SkipAndWarn ==
    (call.op = "calculateAbjad" /\ normStatus.success) =>
        /\ Len(CalculatorResult.characterBreakdown) = Len(MappedLetters(normStatus.cleaned))
        /\ \A i \in 1..Len(CalculatorResult.characterBreakdown) :
              /\ CalculatorResult.characterBreakdown[i].character
                    = MappedLetters(normStatus.cleaned)[i]
              /\ CalculatorResult.characterBreakdown[i].value
                    = ABJAD_VALUES[MappedLetters(normStatus.cleaned)[i]]
        /\ Len(CalculatorResult.characterBreakdown) + Len(CalculatorResult.warnings)
              = Len(normStatus.cleaned)
        /\ CalculatorResult.totalValue = SumOfValues(CalculatorResult.characterBreakdown)
        /\ calcReturn.success =>
              /\ Len(calcReturn.characterBreakdown) = Len(MappedLetters(normStatus.cleaned))
              /\ \A i \in 1..Len(calcReturn.characterBreakdown) :
                    /\ calcReturn.characterBreakdown[i].character
                          = MappedLetters(normStatus.cleaned)[i]
                    /\ calcReturn.characterBreakdown[i].value
                          = ABJAD_VALUES[MappedLetters(normStatus.cleaned)[i]]
              /\ calcReturn.totalValue = CalculatorResult.totalValue

\* a successful calculation of a text with a space, another character
\* without weight, and a letter
C14_Witness ==
    /\ call.op = "calculateAbjad"
    /\ calcReturn.success
    /\ Len(CalculatorResult.warnings) >= 2
    /\ \E i \in 1..Len(normStatus.cleaned) : normStatus.cleaned[i] = SPACE
    /\ \E i \in 1..Len(normStatus.cleaned) :
          normStatus.cleaned[i] # SPACE /\ normStatus.cleaned[i] \notin DOMAIN ABJAD_VALUES

\* C15: on a text the normalizer passed, the calculator succeeds exactly when
\* a character of the text is a key of the value table; when none is, it
\* fails with the no-valid-letters error, totalValue 0 and charCount 0, and
\* calculateAbjad returns success = false with that error and no total
C15_NoValidLetters ==
    (call.op = "calculateAbjad" /\ normStatus.success) =>
        /\ CalculatorResult.success <=> (MappedLetters(normStatus.cleaned) # <<>>)
        /\ calcReturn.success <=> (MappedLetters(normStatus.cleaned) # <<>>)
        /\ (MappedLetters(normStatus.cleaned) = <<>>) =>
              /\ CalculatorResult.errors =
                    <<ErrorMsg("No valid Arabic letters found in input")>>
              /\ CalculatorResult.totalValue = 0
              /\ CalculatorResult.charCount = 0
              /\ calcReturn =
                    [NoCalcReturn EXCEPT !.error =
                        [prefix |-> "",
                         errors |-> <<ErrorMsg("No valid Arabic letters found in input")>>]]
              /\ stages = <<Stage("normalize", TRUE), Stage("calculate", FALSE)>>

\* a text of the script without any weighted letter: the normalizer passed
\* it and the calculation failed
C15_Witness ==
    /\ call.op = "calculateAbjad"
    /\ normStatus.success
    /\ normStatus.cleaned # <<>>
    /\ MappedLetters(normStatus.cleaned) = <<>>
    /\ ~calcReturn.success

\* the status of the last processNameInput has an error with this message
HasError(msg) ==
    \E e \in 1..Len(normStatus.errors) : normStatus.errors[e].msg = msg

\* the text is empty or all whitespace
WhitespaceOnly(text) == \A i \in 1..Len(text) : IsWhitespace(text[i])

\* no character of the text is kept by the filter of processNameInput: each is
\* whitespace, a diacritic, or outside the script
NothingValid(text) ==
    \A i \in 1..Len(text) :
        \/ IsWhitespace(text[i])
        \/ text[i] \in ARABIC_DIACRITICS
        \/ ~isArabicUrduChar(text[i])

\* C16: processNameInput fails with the empty-input error exactly when the
\* input is empty or all whitespace, and then records no warning; it fails
\* with the no-valid-characters error exactly when an input that is not all
\* whitespace keeps no character of the script; in both cases success is
\* false and the cleaned text empty, and in no other case does it fail
C16_NormalizerFailures ==
    call.op = "processNameInput" =>
        /\ HasError("Empty input") <=> WhitespaceOnly(call.arg.v)
        /\ HasError("Empty input") =>
              (normStatus.warnings = <<>>
                 /\ normStatus.errors = <<ErrorMsg("Empty input")>>)
        /\ HasError("No valid Arabic/Urdu characters found") <=>
              (~WhitespaceOnly(call.arg.v) /\ NothingValid(call.arg.v))
        /\ (HasError("Empty input") \/ HasError("No valid Arabic/Urdu characters found"))
              => (~normStatus.success /\ normStatus.cleaned = <<>>)
        /\ ~normStatus.success =>
              (HasError("Empty input") \/ HasError("No valid Arabic/Urdu characters found"))

\* an input of characters outside the script with whitespace in between
\* fails for want of a valid character
C16_Witness ==
    /\ call.op = "processNameInput"
    /\ ~normStatus.success
    /\ HasError("No valid Arabic/Urdu characters found")
    /\ Len(call.arg.v) >= 3
    /\ ~isArabicUrduChar(call.arg.v[1]) /\ ~IsWhitespace(call.arg.v[1])
    /\ IsWhitespace(call.arg.v[2])

\* a result of matchDivineNames without its timing field
Untimed(ret) == [ret EXCEPT !.responseTimeMs = 0]

\* the loader of another run in which initializeCalculator was called once,
\* first, with the value table and the catalog that are loaded now
SameTables ==
    IF _dataLoader.isNull THEN NullDataLoader
    ELSE initializeCalculator(NullDataLoader, _dataLoader.abjadValues,
                              _dataLoader.divineNames, _dataLoader.namesIndex)

\* C17: the last call returned what the same call returns in any other run
\* with the same value table and catalog loaded, whatever the timer reports:
\* the same status and cleaned text, the same breakdown, the same names and
\* combinations in the same order; only the timing field may differ
C17_Determinism ==
    /\ call.op = "calculateAbjad" =>
          /\ calcReturn = calculateAbjad(SameTables, [isNull |-> TRUE], call.arg).ret
          /\ normStatus = calculateAbjad(SameTables, [isNull |-> TRUE], call.arg).status
    /\ call.op = "matchDivineNames" =>
          \A ms \in Elapsed :
              Untimed(matchReturn)
                 = Untimed(matchDivineNames(SameTables, NullMatcher, call.arg, ms).ret)

\* the text with every diacritic deleted
WithoutDiacritics(text) == SelectSeq(text, LAMBDA c : c \notin ARABIC_DIACRITICS)

HasDiacritic(text) == \E i \in 1..Len(text) : text[i] \in ARABIC_DIACRITICS

\* C18: hasDiacritics is true, and the diacritics warning present, exactly
\* when the input has a character of the diacritic set; the cleaned text and
\* the result of the calculation are those of the input with its diacritics
\* deleted; a diacritic and one letter of the table give that letter's weight
C18_DiacriticsTransparent ==
    /\ call.op \in {"processNameInput", "calculateAbjad"} =>
          /\ normStatus.hasDiacritics <=> HasDiacritic(call.arg.v)
          /\ (\E w \in 1..Len(normStatus.warnings) :
                  normStatus.warnings[w] = "Diacritical marks removed")
                <=> HasDiacritic(call.arg.v)
          /\ normStatus.cleaned
                = processNameInput(WithoutDiacritics(call.arg.v), call.opt).cleaned
    /\ call.op = "calculateAbjad" =>
          /\ calcReturn.success
                = calculateAbjad(_dataLoader, _calculator,
                                 Str(WithoutDiacritics(call.arg.v))).ret.success
          /\ calcReturn.totalValue
                = calculateAbjad(_dataLoader, _calculator,
                                 Str(WithoutDiacritics(call.arg.v))).ret.totalValue
          /\ calcReturn.cleanedName
                = calculateAbjad(_dataLoader, _calculator,
                                 Str(WithoutDiacritics(call.arg.v))).ret.cleanedName
          /\ (Len(call.arg.v) = 2 /\ call.arg.v[1] \in ARABIC_DIACRITICS
                /\ call.arg.v[2] \in DOMAIN ABJAD_VALUES \ DOMAIN ARABIC_CHAR_VARIANTS)
                => (calcReturn.success
                      /\ calcReturn.totalValue = ABJAD_VALUES[call.arg.v[2]])

\* a fatha before alef: the diacritic is reported and the total is alef's 1
C18_Witness ==
    /\ call.op = "calculateAbjad"
    /\ call.arg.v = <<FATHA, ALEF>>
    /\ normStatus.hasDiacritics
    /\ calcReturn.success
    /\ calcReturn.totalValue = 1
    /\ calcReturn.cleanedName = <<ALEF>>

\* the positions in a list of combinations of the pair of the two ids
PairPositions(list, id1, id2) ==
    {r \in 1..Len(list) : {list[r].name1.id, list[r].name2.id} = {id1, id2}}

\* the combinations recorded whose two names both have half the target
HalfPairs(v) ==
    {r \in 1..Len(Recorded) :
        /\ 2 * Recorded[r].name1.abjad_value = v
        /\ 2 * Recorded[r].name2.abjad_value = v}

\* C19: when the target v has no direct match, no entity is paired with
\* itself; every two different entities that both have value v/2 are recorded
\* as a pair exactly once, so k entities of value v/2 give k*(k-1)/2 such
\* pairs before the cut; up to 10 recorded pairs all of them are returned
C19_HalfTarget ==
    (call.op = "matchDivineNames" /\ call.arg.t = "num"
        /\ matchReturn.type = "two_name_combination") =>
        /\ \A r \in 1..Len(Recorded) : Recorded[r].name1.id # Recorded[r].name2.id
        /\ \A i, j \in 1..Len(_dataLoader.divineNames) :
              (i < j /\ 2 * _dataLoader.divineNames[i].abjad_value = call.arg.n
                     /\ 2 * _dataLoader.divineNames[j].abjad_value = call.arg.n)
                 => /\ Cardinality(PairPositions(Recorded,
                                       _dataLoader.divineNames[i].id,
                                       _dataLoader.divineNames[j].id)) = 1
                    /\ Len(Recorded) <= 10 =>
                          Cardinality(PairPositions(Combinations,
                                          _dataLoader.divineNames[i].id,
                                          _dataLoader.divineNames[j].id)) = 1
        /\ 2 * Cardinality(HalfPairs(call.arg.n))
              = Len(EntitiesValued(call.arg.n \div 2))
                  * (Len(EntitiesValued(call.arg.n \div 2)) - 1)
           \/ call.arg.n % 2 = 1

\* four or more entities of half the target and one of another value: a pair
\* result with all the pairs of the four
C19_Witness ==
    /\ call.op = "matchDivineNames"
    /\ call.arg.t = "num"
    /\ call.arg.n % 2 = 0
    /\ matchReturn.type = "two_name_combination"
    /\ Len(EntitiesValued(call.arg.n \div 2)) >= 4
    /\ Len(_dataLoader.divineNames) > Len(EntitiesValued(call.arg.n \div 2))
    /\ Cardinality(HalfPairs(call.arg.n)) >= 6

\* the three tables of the loader; one not yet constructed has them empty
LoaderTables(loader) ==
    << loader.abjadValues, loader.divineNames, loader.namesIndex >>

\* the value map the next match call works with: the matcher's own, or the
\* one its construction would build from the catalog
ObservedValueMap(matcher, loader) ==
    IF matcher.isNull THEN _buildValueMap(loader.divineNames)
    ELSE matcher.valueToIds

\* C20: a calculateAbjad or matchDivineNames call, successful or failing,
\* leaves the loader's letter values, catalog and names index as they were
\* and leaves the value map that match calls work with as it was; so the
\* tables change in initializeCalculator steps only
C20_ReadOnlyTables ==
    [][call'.op \in {"calculateAbjad", "matchDivineNames"} =>
          /\ LoaderTables(_dataLoader') = LoaderTables(_dataLoader)
          /\ _dataLoader'.loaded = _dataLoader.loaded
          /\ ObservedValueMap(_matcher', _dataLoader')
                = ObservedValueMap(_matcher, _dataLoader)]_vars

\* a failing call on loaded tables: the catalog is still there
C20_Witness ==
    /\ call.op = "matchDivineNames"
    /\ ~matchReturn.success
    /\ _dataLoader.loaded
    /\ Len(_dataLoader.divineNames) = ReloadLen
    /\ ~_matcher.isNull

\* the last click on Calculate failed in a stage: in the normalizer, in the
\* calculator or in the matcher
LastRequestFailed ==
    /\ call.op = "handleCalculate"
    /\ stages # <<>>
    /\ ~stages[Len(stages)].ok

\* C21: after any clicks on Calculate and Clear, when the last click on
\* Calculate failed, the error text is shown and the result section is not
\* displayed, so no breakdown and no match of that or an earlier click stands
\* next to the error
C21_FailedShowsNoResults ==
    LastRequestFailed =>
        /\ ui.errorDisplay = "block"
        /\ ui.resultSection = "none"

\* C22: every result that matchDivineNames returns with success, a direct one
\* as well as a pair one, has the field abjadValue, and it is the value the
\* call was given
C22_TargetValueCarried ==
    (call.op = "matchDivineNames" /\ matchReturn.success) =>
        /\ matchReturn.hasAbjadValue
        /\ matchReturn.abjadValue = parseInt(call.arg)

\* the cleaned text of the last processNameInput
Cleaned == normStatus.cleaned

\* the letters of the input that the cleaned text has to hold, in input order:
\* no whitespace, no diacritic, no character outside the script, and each
\* variant letter replaced by its standard form
RECURSIVE KeptLetters(_)
KeptLetters(text) ==
    IF text = <<>> THEN <<>>
    ELSE IF \/ IsWhitespace(Head(text))
            \/ Head(text) \in ARABIC_DIACRITICS
            \/ ~isArabicUrduChar(Head(text))
         THEN KeptLetters(Tail(text))
         ELSE <<IF Head(text) \in DOMAIN ARABIC_CHAR_VARIANTS
                THEN ARABIC_CHAR_VARIANTS[Head(text)] ELSE Head(text)>>
              \o KeptLetters(Tail(text))

\* C23: when processNameInput succeeds the cleaned text is not empty, holds
\* only script characters and spaces, does not begin or end with a space, has
\* no two spaces in a row, no diacritic, no variant letter and no character
\* outside the script; its letters are the kept letters of the input in input
\* order; with removeSpacesBetween it has no space
C23_CleanedText ==
    (call.op = "processNameInput" /\ normStatus.success) =>
        /\ Cleaned # <<>>
        /\ \A i \in 1..Len(Cleaned) :
              /\ Cleaned[i] = SPACE \/ isArabicUrduChar(Cleaned[i])
              /\ Cleaned[i] = SPACE \/ ~IsWhitespace(Cleaned[i])
              /\ Cleaned[i] \notin ARABIC_DIACRITICS
              /\ Cleaned[i] \notin DOMAIN ARABIC_CHAR_VARIANTS
        /\ Cleaned[1] # SPACE
        /\ Cleaned[Len(Cleaned)] # SPACE
        /\ \A i \in 1..(Len(Cleaned) - 1) :
              ~(Cleaned[i] = SPACE /\ Cleaned[i + 1] = SPACE)
        /\ SelectSeq(Cleaned, LAMBDA c : c # SPACE) = KeptLetters(call.arg.v)
        /\ call.opt => \A i \in 1..Len(Cleaned) : Cleaned[i] # SPACE
        /\ normStatus.length = Len(Cleaned)

\* a success, spaces kept, on an input with a variant letter and with a
\* diacritic or a character outside the script standing between two
\* whitespaces: deleting it leaves two spaces in a row for the final cleanup
C23_Witness ==
    /\ call.op = "processNameInput"
    /\ ~call.opt
    /\ normStatus.success
    /\ \E i \in 1..Len(Cleaned) : Cleaned[i] = SPACE
    /\ \E j \in 1..Len(call.arg.v) : call.arg.v[j] \in DOMAIN ARABIC_CHAR_VARIANTS
    /\ \E k \in 2..(Len(call.arg.v) - 1) :
          /\ IsWhitespace(call.arg.v[k - 1])
          /\ IsWhitespace(call.arg.v[k + 1])
          /\ call.arg.v[k] \in ARABIC_DIACRITICS \/ ~isArabicUrduChar(call.arg.v[k])

\* the pairs of positions of the loaded catalog, the earlier one first, whose
\* two values add up to v
SummingPairs(v) ==
    {p \in (1..Len(_dataLoader.divineNames)) \X (1..Len(_dataLoader.divineNames)) :
        /\ p[1] < p[2]
        /\ _dataLoader.divineNames[p[1]].abjad_value
              + _dataLoader.divineNames[p[2]].abjad_value = v}

\* the pair of catalog positions p is among the combinations of the list
Holds(list, p) ==
    PairPositions(list, _dataLoader.divineNames[p[1]].id,
                        _dataLoader.divineNames[p[2]].id) # {}

\* C24: for a catalog of unique ids and a target v that no entity has, the
\* pair search records every pair of different entities whose values add up
\* to v; a result of fewer than 10 combinations holds all of them, and a
\* result with found = false means there is no such pair
C24_PairCompleteness ==
    (call.op = "matchDivineNames" /\ call.arg.t = "num"
        /\ matchReturn.type = "two_name_combination") =>
        /\ \A p \in SummingPairs(call.arg.n) : Holds(Recorded, p)
        /\ Len(Combinations) < DEFAULT_LIMIT =>
              \A p \in SummingPairs(call.arg.n) : Holds(Combinations, p)
        /\ ~matchReturn.found => SummingPairs(call.arg.n) = {}

\* a result of several combinations, fewer than 10, of entities of two
\* values, from a catalog whose ids go down
C24_Witness ==
    /\ call.op = "matchDivineNames"
    /\ call.arg.t = "num"
    /\ matchReturn.type = "two_name_combination"
    /\ Len(Combinations) >= 4
    /\ Len(Combinations) < DEFAULT_LIMIT
    /\ Cardinality(SummingPairs(call.arg.n)) = Len(Combinations)
    /\ \E i \in 1..Len(Combinations) :
          Combinations[i].name1.abjad_value # Combinations[i].name2.abjad_value
    /\ _dataLoader.divineNames[1].id > _dataLoader.divineNames[2].id

\* the loader of a fresh system on which initializeCalculator with the data
\* now loaded was the first call
FreshLoader ==
    initializeCalculator(NullDataLoader, _dataLoader.abjadValues,
                         _dataLoader.divineNames, _dataLoader.namesIndex)

\* C25: after calls made before initializeCalculator, which fail, and the one
\* initializeCalculator that follows, every matchDivineNames call and every
\* calculateAbjad call returns what it returns in a fresh system that was
\* initialized with the same data first
C25_EarlyCallNoEffect ==
    /\ (call.op = "matchDivineNames" /\ ~Uninitialized) =>
          matchReturn = matchDivineNames(FreshLoader, NullMatcher, call.arg,
                                         matchReturn.responseTimeMs).ret
    /\ (call.op = "calculateAbjad" /\ ~Uninitialized) =>
          calcReturn = calculateAbjad(FreshLoader, [isNull |-> TRUE], call.arg).ret

\* the place in the loaded catalog of the entity with the id
PlaceOf(id) ==
    CHOOSE i \in 1..Len(_dataLoader.divineNames) : _dataLoader.divineNames[i].id = id

\* C26: in every combination that the pair search records, and so in every
\* combination it returns, name1 stands earlier in the catalog than name2,
\* whatever the order of the ids in the catalog
C26_PairOrientation ==
    (call.op = "matchDivineNames" /\ call.arg.t = "num"
        /\ matchReturn.type = "two_name_combination") =>
        /\ \A r \in 1..Len(Recorded) :
              PlaceOf(Recorded[r].name1.id) < PlaceOf(Recorded[r].name2.id)
        /\ \A i \in 1..Len(Combinations) :
              PlaceOf(Combinations[i].name1.id) < PlaceOf(Combinations[i].name2.id)

\* a result of several combinations from a catalog not sorted by id: one has
\* the larger id as name1, another the smaller
C26_Witness ==
    /\ call.op = "matchDivineNames"
    /\ call.arg.t = "num"
    /\ matchReturn.type = "two_name_combination"
    /\ \E i, j \in 1..Len(Combinations) :
          /\ Combinations[i].name1.id > Combinations[i].name2.id
          /\ Combinations[j].name1.id < Combinations[j].name2.id

\* the index holds, under the string of each value of the catalog and under
\* no other key, the entities of that value in catalog order
IndexOf(index, catalog) ==
    /\ DOMAIN index = {StringOf(catalog[i].abjad_value) : i \in 1..Len(catalog)}
    /\ \A k \in DOMAIN index :
          index[k] = SelectSeq(catalog, LAMBDA e : StringOf(e.abjad_value) = k)

\* C27: the calculator is initialized only by an initializeApp that returned
\* true, and then the catalog fetched is not empty, NAMES_INDEX is the index
\* of exactly that catalog and both were handed to initializeCalculator; when
\* the fetch failed or gave an empty catalog, initializeApp returned false,
\* showed the initialization error and initializeCalculator was not called
C27_StartupOrdering ==
    /\ app.started = "ok" =>
          /\ app.DIVINE_NAMES # <<>>
          /\ IndexOf(app.NAMES_INDEX, app.DIVINE_NAMES)
          /\ _dataLoader.abjadValues = ABJAD_VALUES
          /\ _dataLoader.divineNames = app.DIVINE_NAMES
          /\ _dataLoader.namesIndex = app.NAMES_INDEX
    /\ app.started # "ok" =>
          /\ DOMAIN _dataLoader.abjadValues = {}
          /\ _dataLoader.divineNames = <<>>
          /\ DOMAIN _dataLoader.namesIndex = {}
    /\ (app.started # "pending" /\ app.DIVINE_NAMES = <<>>) => app.started = "failed"
    /\ (call.op = "initializeApp" /\ app.started = "failed") =>
          /\ ui.errorDisplay = "block"
          /\ ui.errorText = UiError("Failed to load Divine Names data.")

\* initializeApp has returned true with a catalog of two entities of one value
C27_Witness ==
    /\ call.op = "initializeApp"
    /\ app.started = "ok"
    /\ Len(app.DIVINE_NAMES) = 2
    /\ app.DIVINE_NAMES[1].abjad_value = app.DIVINE_NAMES[2].abjad_value
    /\ ~_dataLoader.isNull

=============================================================================
